---------------------------- MODULE Spec2Model ----------------------------
(***************************************************************************)
(* State-machine model of src/telegram_bot.py: the start and               *)
(* handle_message handlers, the choice of the ingress variant in main, the *)
(* webhook variant (run_bot_with_health_check: HTTP listener, health       *)
(* endpoints, telegram_webhook feeding application.update_queue), the      *)
(* polling variant (run_bot_polling) and the shutdown on an interrupt.     *)
(*                                                                         *)
(* Python str values are modelled as sequences.  Arabic text is a sequence *)
(* of code points, each written by its Unicode name:                       *)
(*   kaf U+0643, seen U+0633, meem U+0645, hah U+062D, reh U+0631,         *)
(*   feh U+0641, waw U+0648, sheen U+0634, alef U+0627, lam U+0644,        *)
(*   heh U+0647, yeh U+064A, ain U+0639, sp U+0020.                        *)
(***************************************************************************)
EXTENDS Integers, Sequences, FiniteSets, TLC

VARIABLES
    token,      \* TELEGRAM_BOT_TOKEN (line 18): "unset", "empty" or "set"
    url,        \* WEBHOOK_URL (line 20): unset, or a str given by its pieces
    pc,         \* position of the process in main / run_bot_*
    variant,    \* ingress variant entered by main: "none", "polling", "webhook"
    exit,       \* how main ended: "none", "returned", "interrupted", "fatal"
    stopAt,     \* pc at which the interrupt was received, "none" before
    app,        \* Application: "none","built","initialized","started","stopped","shutdown"
    updater,    \* application.updater: "idle", "polling", "stopped"
    listener,   \* aiohttp TCPSite: "closed", "open", "released"
    platform,   \* set of platform API calls made so far
    errlog,     \* set of logger.error messages written so far
    arrived,    \* number of Updates / webhook requests that reached the ingress
    handlers,   \* telegram_webhook coroutines suspended at await request.json()
    resp,       \* per webhook request, in order of arrival: the kind of its body and
                \* the HTTP status telegram_webhook answered (0 while it has not)
    queue,      \* application.update_queue
    cur,        \* <<u>> while the handler of Update u awaits its reply send, else <<>>
    handled,    \* the Updates taken from the queue, in dispatch order
    sent,       \* Outbound Messaging calls made, in order
    health      \* <<r>>, r the last answer of health_check; <<>> before the first

vars == <<token, url, pc, variant, exit, stopAt, app, updater, listener, platform,
          errlog, arrived, handlers, resp, queue, cur, handled, sent, health>>

-----------------------------------------------------------------------------
(* Bounds of the model *)

\* longest text put before and after a core phrase in an enumerated message text
MaxPad == 1
\* number of Updates / webhook requests one run receives
MaxArrivals == 2

-----------------------------------------------------------------------------
(* Python str operations on sequences *)

\* s[i:i+n]
Slice(s, i, n) == [k \in 1..n |-> s[i + k - 1]]

\* Python `needle in hay` for str: needle occurs as a contiguous run of hay
Contains(needle, hay) ==
    \E i \in 1..(Len(hay) - Len(needle) + 1) : Slice(hay, i, Len(needle)) = needle

Digit(d) == <<"0", "1", "2", "3", "4", "5", "6", "7", "8", "9">>[d + 1]

RECURSIVE NatToStr(_)
NatToStr(n) == IF n < 10 THEN <<Digit(n)>> ELSE NatToStr(n \div 10) \o <<Digit(n % 10)>>

\* f"{chat_id}" for an int: decimal digits, a leading "-" when negative
IntToStr(n) == IF n < 0 THEN <<"-">> \o NatToStr(0 - n) ELSE NatToStr(n)

\* all sequences over S of length at most n
RECURSIVE SeqsUpTo(_, _)
SeqsUpTo(S, n) ==
    IF n = 0 THEN {<<>>}
    ELSE LET shorter == SeqsUpTo(S, n - 1)
         IN  shorter \cup {Append(s, x) : s \in shorter, x \in S}

-----------------------------------------------------------------------------
(* The handlers *)

\* the literal compared with == at line 59
Trigger1 == <<"kaf", "seen", "meem", "kaf">>
\* the literal passed to reply_text at line 60
Reply1 == <<"alef", "lam", "lam", "heh", "sp", "yeh", "seen", "alef", "meem", "hah", "kaf">>
\* the literal searched with `in` at line 61
Trigger2 == <<"hah", "reh", "feh", "waw", "sheen">>
\* the literal passed to reply_text at line 62
Reply2 == <<"hah", "reh", "feh", "waw", "sheen", "sp", "ain", "meem", "kaf">>

WelcomeHead == "<b>[U+1F44B] Welcome to UniShark Bot, "
WelcomeTail == "!</b> [U+1F988]\n\n"
IdHead == "I'm here to help you stay on top of your university tasks. Here is your unique ID to connect me to your account:\n\n[U+1F511] <b>Your Personal Chat ID is:</b> <code>"
IdTail == "</code>\n\n<b>Action Required:</b>\n1. Copy the Chat ID above.\n2. Go to your UniShark settings page.\n3. Paste the ID into the 'Telegram Chat ID' field.\n\nOnce connected, I'll send you instant notifications for:\n- New Assignments\n- New Quizzes\n- Approaching Deadlines\n\nGood luck with your studies! [U+1F393]"

\* the f-string of lines 29-42: literal pieces around user.first_name and chat_id
StartMessage(update) ==
    <<WelcomeHead, update.first_name, WelcomeTail, IdHead>>
        \o IntToStr(update.chat_id) \o <<IdTail>>

\* keyboard of lines 44-47: rows of buttons
StartKeyboard == << <<[text |-> "Go to UniShark Website", url |-> "https://unishark.site"]>> >>

NoKeyboard == <<>>

\* an Outbound Messaging call: update.message.reply_html / reply_text
Send(update, method, text, keyboard) ==
    [update_id |-> update.update_id, chat_id |-> update.chat_id, method |-> method,
     text |-> text, reply_markup |-> keyboard]

start_mut_user_id(update) ==
    <<Send(update, "reply_html",
           <<WelcomeHead, update.first_name, WelcomeTail, IdHead>>
               \o IntToStr(update.user_id) \o <<IdTail>>,
           StartKeyboard)>>

\* start (lines 22-53): the sends it makes, in order
start(update) ==
    <<Send(update, "reply_html", StartMessage(update), StartKeyboard)>>

handle_message_mut_swapped(update) ==
    IF update.text = Trigger1
    THEN <<Send(update, "reply_text", Reply2, NoKeyboard)>>
    ELSE IF Contains(Trigger2, update.text)
         THEN <<Send(update, "reply_text", Reply1, NoKeyboard)>>
         ELSE <<>>

handle_message_mut_substring(update) ==
    IF Contains(Trigger1, update.text)
    THEN <<Send(update, "reply_text", Reply1, NoKeyboard)>>
    ELSE IF Contains(Trigger2, update.text)
         THEN <<Send(update, "reply_text", Reply2, NoKeyboard)>>
         ELSE <<>>

handle_message_mut_exact(update) ==
    IF update.text = Trigger1
    THEN <<Send(update, "reply_text", Reply1, NoKeyboard)>>
    ELSE IF update.text = Trigger2
         THEN <<Send(update, "reply_text", Reply2, NoKeyboard)>>
         ELSE <<>>

\* handle_message (lines 55-62): the sends it makes, in order
handle_message(update) ==
    IF update.text = Trigger1
    THEN <<Send(update, "reply_text", Reply1, NoKeyboard)>>
    ELSE IF Contains(Trigger2, update.text)
         THEN <<Send(update, "reply_text", Reply2, NoKeyboard)>>
         ELSE <<>>

\* CommandHandler("start", start) (line 82)
IsStartCommand(update) == update.kind = "command" /\ update.command = "start"

\* filters.TEXT & ~filters.COMMAND (line 83)
IsPlainText(update) == update.kind = "text" /\ update.text # <<>>

\* the handlers registered at lines 82-83, the first that matches handles
Route(update) ==
    IF IsStartCommand(update) THEN start(update)
    ELSE IF IsPlainText(update) THEN handle_message(update)
    ELSE <<>>


-----------------------------------------------------------------------------
(* Configuration read from the environment (lines 18-20) *)

Tokens == {"unset", "empty", "set"}

\* WEBHOOK_URL: os.getenv gives None (set = FALSE) or a str, modelled as its
\* pieces; scheme, host and rest tell where in the URL the pieces lie.
Url(isSet, scheme, host, rest) ==
    [set |-> isSet, scheme |-> scheme, host |-> host, rest |-> rest]

\* the str value of WEBHOOK_URL
UrlText(u) == u.scheme \o u.host \o u.rest

Urls ==
    { Url(FALSE, <<>>, <<>>, <<>>),
      Url(TRUE, <<>>, <<>>, <<>>),
      Url(TRUE, <<"https://">>, <<"bot.example.com">>, <<"/">>),
      Url(TRUE, <<"http://">>, <<"localhost">>, <<":8000", "/">>),
      Url(TRUE, <<"http://">>, <<"127.0.0.1">>, <<":8000", "/">>),
      Url(TRUE, <<"http://">>, <<"[::1]">>, <<":8000", "/">>),
      Url(TRUE, <<"https://">>, <<"bot.example.com">>, <<"/", "localhost", "/">>) }

TokenMissing_mut_none_only == token = "unset"

\* `not TELEGRAM_BOT_TOKEN` (line 191): None and "" are both falsy
TokenMissing == token \in {"unset", "empty"}

\* `not WEBHOOK_URL` (line 198): None and "" are both falsy
UrlMissing(u) == ~u.set \/ UrlText(u) = <<>>

\* is_local (line 198)
is_local(u) ==
    UrlMissing(u) \/ Contains(<<"localhost">>, UrlText(u))
                  \/ Contains(<<"127.0.0.1">>, UrlText(u))

-----------------------------------------------------------------------------
(* Updates *)

Update(id, kind, command, chat_id, user_id, first_name, text) ==
    [update_id |-> id, kind |-> kind, command |-> command, chat_id |-> chat_id,
     user_id |-> user_id, first_name |-> first_name, text |-> text]

PadLetters == {"kaf", "hah", "x"}

Pads == SeqsUpTo(PadLetters, MaxPad)

Cores ==
    { <<>>, Trigger1, Trigger2, Trigger1 \o Trigger2,
      <<"kaf", "seen", "meem">>,
      <<"hah", "reh", "feh", "waw">>,
      <<"hah", "reh", "waw", "feh", "sheen">> }

\* message texts: a core phrase with text before and after it
Texts == {p \o c \o q : p \in Pads, c \in Cores, q \in Pads}

ChatIds == {-1001, 7, 42, 305}

FirstNames == {"Ali", "<b>Sara"}

TextUpdate(id, text) == Update(id, "text", "", 7, 7, "Ali", text)

CommandUpdate(id, command, chat_id, user_id, first_name) ==
    Update(id, "command", command, chat_id, user_id, first_name, <<"/", command>>)

\* the Updates the handlers are checked on
HandlerUpdates ==
    {TextUpdate(1, t) : t \in Texts}
        \cup {CommandUpdate(1, c, ch, u, n) :
                c \in {"start", "help"}, ch \in ChatIds, u \in {7, 99}, n \in FirstNames}
        \cup {Update(1, "other", "", 7, 7, "Ali", <<>>)}

\* the Updates that arrive while the whole process runs
SysUpdates(id) ==
    { CommandUpdate(id, "start", 42, 42, "Ali"),
      TextUpdate(id, Trigger1),
      TextUpdate(id, <<"x">> \o Trigger2),
      TextUpdate(id, <<"x">>) }

\* bodies POSTed to the webhook path: request.json() raises on "malformed",
\* Update.de_json raises on "invalid"
Body(json, update) == [json |-> json, update |-> update]

Bodies(id) ==
    {Body("malformed", <<>>), Body("invalid", <<>>)}
        \cup {Body("update", <<u>>) : u \in SysUpdates(id)}

-----------------------------------------------------------------------------
(* Initial state: the module is loaded, main has not run *)

Init ==
    /\ token \in Tokens
    /\ url \in Urls
    /\ pc = "main"
    /\ variant = "none"
    /\ exit = "none"
    /\ stopAt = "none"
    /\ app = "none"
    /\ updater = "idle"
    /\ listener = "closed"
    /\ platform = {}
    /\ errlog = {}
    /\ arrived = 0
    /\ handlers = {}
    /\ resp = <<>>
    /\ queue = <<>>
    /\ cur = <<>>
    /\ handled = <<>>
    /\ sent = <<>>
    /\ health = <<>>

config == <<token, url>>
ingress == <<arrived, handlers, resp>>
dispatch == <<queue, cur, handled, sent>>

\* positions where the coroutine waits on asyncio.Event().wait() (lines 150, 179)
Running == {"wh_running", "pl_running"}

-----------------------------------------------------------------------------
(* main (lines 185-215) *)

\* lines 191-210: the token check, then the choice of the variant
Main ==
    /\ pc = "main"
    /\ IF TokenMissing
       THEN /\ errlog' = errlog \cup {"TELEGRAM_BOT_TOKEN is not set. The bot cannot start."}
            /\ pc' = "exited"
            /\ exit' = "returned"
            /\ UNCHANGED variant
       ELSE /\ variant' = IF is_local(url) THEN "polling" ELSE "webhook"
            /\ pc' = IF is_local(url) THEN "pl_build" ELSE "wh_build"
            /\ UNCHANGED <<errlog, exit>>
    /\ UNCHANGED <<config, stopAt, app, updater, listener, platform,
                   ingress, dispatch, health>>

\* an exception leaves run_bot_*: logged where raised (msgs), then by main
\* (lines 213-215), which re-raises; asyncio.run has cancelled the pending tasks
Raise(msgs) ==
    /\ pc' = "exited"
    /\ exit' = "fatal"
    /\ errlog' = errlog \cup msgs \cup {"Fatal error"}
    /\ handlers' = {}
    /\ cur' = <<>>

\* a step of run_bot_* that succeeds and goes on to position next
Goto(next) ==
    /\ pc' = next
    /\ UNCHANGED <<exit, errlog, handlers, cur>>

Interrupt_mut_no_finally ==
    /\ pc \notin {"main", "exited"}
    /\ stopAt = "none"
    /\ stopAt' = pc
    /\ pc' = "exited"
    /\ exit' = "interrupted"
    /\ handlers' = {}
    /\ cur' = <<>>
    /\ UNCHANGED <<config, variant, app, updater, listener, platform, errlog,
                   arrived, resp, queue, handled, sent, health>>

\* KeyboardInterrupt while asyncio.run is running (lines 206-212): the coroutine
\* is cancelled where it waits; only the waits of lines 150 and 179 lie inside
\* a try/finally
Interrupt ==
    /\ pc \notin {"main", "exited"}
    /\ stopAt = "none"
    /\ stopAt' = pc
    /\ IF pc \in Running
       THEN /\ pc' = IF pc = "wh_running" THEN "wh_stop" ELSE "pl_updater_stop"
            /\ UNCHANGED <<exit, handlers, cur>>
       ELSE /\ pc' = "exited"
            /\ exit' = "interrupted"
            /\ handlers' = {}
            /\ cur' = <<>>
    /\ UNCHANGED <<config, variant, app, updater, listener, platform, errlog,
                   arrived, resp, queue, handled, sent, health>>

-----------------------------------------------------------------------------
(* run_bot_with_health_check (lines 68-154) *)

\* lines 75-83: build the application, add the handlers
WhBuild(ok) ==
    /\ pc = "wh_build"
    /\ IF ok
       THEN app' = "built" /\ Goto("wh_initialize")
       ELSE Raise({"Failed to create application"}) /\ UNCHANGED app
    /\ UNCHANGED <<config, variant, stopAt, updater, listener, platform,
                   arrived, resp, queue, handled, sent, health>>

\* line 87: await application.initialize()
WhInitialize(ok) ==
    /\ pc = "wh_initialize"
    /\ platform' = platform \cup {"get_me"}
    /\ IF ok
       THEN app' = "initialized" /\ Goto("wh_start")
       ELSE Raise({"Failed to initialize application"}) /\ UNCHANGED app
    /\ UNCHANGED <<config, variant, stopAt, updater, listener,
                   arrived, resp, queue, handled, sent, health>>

\* line 88: await application.start()
WhStart(ok) ==
    /\ pc = "wh_start"
    /\ IF ok
       THEN app' = "started" /\ Goto("wh_set_webhook")
       ELSE Raise({"Failed to initialize application"}) /\ UNCHANGED app
    /\ UNCHANGED <<config, variant, stopAt, updater, listener, platform,
                   arrived, resp, queue, handled, sent, health>>

\* lines 95-108: await application.bot.set_webhook(...)
WhSetWebhook(ok) ==
    /\ pc = "wh_set_webhook"
    /\ platform' = platform \cup {"set_webhook"}
    /\ IF ok
       THEN Goto("wh_web_server")
       ELSE Raise({"Failed to set webhook"})
    /\ UNCHANGED <<config, variant, stopAt, app, updater, listener,
                   arrived, resp, queue, handled, sent, health>>

\* lines 111-146: routes, runner.setup(), site.start(); then the wait of line 150
WhWebServer(ok) ==
    /\ pc = "wh_web_server"
    /\ IF ok
       THEN listener' = "open" /\ Goto("wh_running")
       ELSE Raise({"Failed to start web server"}) /\ UNCHANGED listener
    /\ UNCHANGED <<config, variant, stopAt, app, updater, platform,
                   arrived, resp, queue, handled, sent, health>>

\* line 152: await application.stop()
WhStop ==
    /\ pc = "wh_stop"
    /\ app' = "stopped"
    /\ Goto("wh_shutdown")
    /\ UNCHANGED <<config, variant, stopAt, updater, listener, platform,
                   arrived, resp, queue, handled, sent, health>>

\* line 153: await application.shutdown()
WhShutdown ==
    /\ pc = "wh_shutdown"
    /\ app' = "shutdown"
    /\ Goto("wh_cleanup")
    /\ UNCHANGED <<config, variant, stopAt, updater, listener, platform,
                   arrived, resp, queue, handled, sent, health>>

\* line 154: await runner.cleanup(); then main logs the stop (lines 211-212)
WhCleanup ==
    /\ pc = "wh_cleanup"
    /\ listener' = "released"
    /\ pc' = "exited"
    /\ exit' = "interrupted"
    /\ handlers' = {}
    /\ cur' = <<>>
    /\ UNCHANGED <<config, variant, stopAt, app, updater, platform, errlog,
                   arrived, resp, queue, handled, sent, health>>

-----------------------------------------------------------------------------
(* run_bot_polling (lines 156-183) *)

\* lines 161-165: build the application, add the handlers
PlBuild(ok) ==
    /\ pc = "pl_build"
    /\ IF ok
       THEN app' = "built" /\ Goto("pl_delete_webhook")
       ELSE Raise({}) /\ UNCHANGED app
    /\ UNCHANGED <<config, variant, stopAt, updater, listener, platform,
                   arrived, resp, queue, handled, sent, health>>

\* line 168: await application.bot.delete_webhook(drop_pending_updates=True)
PlDeleteWebhook(ok) ==
    /\ pc = "pl_delete_webhook"
    /\ platform' = platform \cup {"delete_webhook"}
    /\ IF ok
       THEN Goto("pl_initialize")
       ELSE Raise({})
    /\ UNCHANGED <<config, variant, stopAt, app, updater, listener,
                   arrived, resp, queue, handled, sent, health>>

\* line 172: await application.initialize()
PlInitialize(ok) ==
    /\ pc = "pl_initialize"
    /\ platform' = platform \cup {"get_me"}
    /\ IF ok
       THEN app' = "initialized" /\ Goto("pl_start")
       ELSE Raise({}) /\ UNCHANGED app
    /\ UNCHANGED <<config, variant, stopAt, updater, listener,
                   arrived, resp, queue, handled, sent, health>>

\* line 173: await application.start()
PlStart(ok) ==
    /\ pc = "pl_start"
    /\ IF ok
       THEN app' = "started" /\ Goto("pl_start_polling")
       ELSE Raise({}) /\ UNCHANGED app
    /\ UNCHANGED <<config, variant, stopAt, updater, listener, platform,
                   arrived, resp, queue, handled, sent, health>>

\* line 174: await application.updater.start_polling(...); then the wait of line 179
PlStartPolling(ok) ==
    /\ pc = "pl_start_polling"
    /\ platform' = platform \cup {"get_updates"}
    /\ IF ok
       THEN updater' = "polling" /\ Goto("pl_running")
       ELSE Raise({}) /\ UNCHANGED updater
    /\ UNCHANGED <<config, variant, stopAt, app, listener,
                   arrived, resp, queue, handled, sent, health>>

\* line 181: await application.updater.stop()
PlUpdaterStop ==
    /\ pc = "pl_updater_stop"
    /\ updater' = "stopped"
    /\ Goto("pl_stop")
    /\ UNCHANGED <<config, variant, stopAt, app, listener, platform,
                   arrived, resp, queue, handled, sent, health>>

\* line 182: await application.stop()
PlStop ==
    /\ pc = "pl_stop"
    /\ app' = "stopped"
    /\ Goto("pl_shutdown")
    /\ UNCHANGED <<config, variant, stopAt, updater, listener, platform,
                   arrived, resp, queue, handled, sent, health>>

\* line 183: await application.shutdown(); then main logs the stop (lines 211-212)
PlShutdown ==
    /\ pc = "pl_shutdown"
    /\ app' = "shutdown"
    /\ pc' = "exited"
    /\ exit' = "interrupted"
    /\ handlers' = {}
    /\ cur' = <<>>
    /\ UNCHANGED <<config, variant, stopAt, updater, listener, platform, errlog,
                   arrived, resp, queue, handled, sent, health>>

-----------------------------------------------------------------------------
(* The HTTP routes of the webhook variant (lines 111-129) *)

health_check_mut_reports_app(request) ==
    IF app = "started"
    THEN [path |-> request, status |-> 200, body |-> "OK\n"]
    ELSE [path |-> request, status |-> 503, body |-> "DOWN\n"]

\* health_check (lines 64-66)
health_check(request) ==
    [path |-> request, status |-> 200, body |-> "OK\n"]

\* the paths of lines 114-115
HealthPaths == {"/", "/health"}

\* a GET on / or /health is served while the TCPSite listens
HealthGet(path) ==
    /\ listener = "open"
    /\ health' = <<health_check(path)>>
    /\ UNCHANGED <<config, pc, variant, exit, stopAt, app, updater, listener, platform,
                   errlog, ingress, dispatch>>

\* a POST on the webhook path starts telegram_webhook, which suspends at
\* await request.json() (line 121); its Update gets the next update id
WebhookBegin(json) ==
    /\ listener = "open"
    /\ arrived < MaxArrivals
    /\ \E body \in Bodies(arrived + 1) :
          /\ body.json = json
          /\ handlers' = handlers \cup {[req |-> Len(resp) + 1, body |-> body]}
    /\ arrived' = arrived + 1
    /\ resp' = Append(resp, [json |-> json, status |-> 0])
    /\ UNCHANGED <<config, pc, variant, exit, stopAt, app, updater, listener, platform,
                   errlog, dispatch, health>>

telegram_webhook_mut_no_except(body) ==
    IF body.json = "update"
    THEN [status |-> 200, put |-> body.update, errors |-> {}]
    ELSE [status |-> 502, put |-> <<>>, errors |-> {}]

\* telegram_webhook from the return of request.json() on (lines 121-127): the
\* status answered, the Updates put on the queue, the errors logged
telegram_webhook(body) ==
    IF body.json = "update"
    THEN [status |-> 200, put |-> body.update, errors |-> {}]
    ELSE [status |-> 500, put |-> <<>>, errors |-> {"Error processing webhook"}]

\* request.json() returns or raises in handler h, which then runs to its return
WebhookFinish(h) ==
    /\ h \in handlers
    /\ LET r == telegram_webhook(h.body)
       IN  /\ queue' = queue \o r.put
           /\ resp' = [resp EXCEPT ![h.req].status = r.status]
           /\ errlog' = errlog \cup r.errors
    /\ handlers' = handlers \ {h}
    /\ UNCHANGED <<config, pc, variant, exit, stopAt, app, updater, listener, platform,
                   arrived, cur, handled, sent, health>>

-----------------------------------------------------------------------------
(* The polling variant's ingress and the dispatcher of the application *)

\* the updater started at line 174 puts a fetched Update on the queue
PollFetch ==
    /\ updater = "polling"
    /\ arrived < MaxArrivals
    /\ \E u \in SysUpdates(arrived + 1) : queue' = Append(queue, u)
    /\ arrived' = arrived + 1
    /\ UNCHANGED <<config, pc, variant, exit, stopAt, app, updater, listener, platform,
                   errlog, handlers, resp, cur, handled, sent, health>>

\* the started application (lines 76, 88 / 161, 173: no concurrent_updates)
\* takes the next Update when the previous handler has returned, and runs
\* the matching handler up to the await of its reply
Dispatch ==
    /\ app = "started"
    /\ pc # "exited"
    /\ cur = <<>>
    /\ queue # <<>>
    /\ LET u == Head(queue)
           sends == Route(u)
       IN  /\ sent' = sent \o sends
           /\ cur' = IF sends = <<>> THEN <<>> ELSE <<u>>
           /\ platform' = IF sends = <<>> THEN platform ELSE platform \cup {"send_message"}
           /\ handled' = Append(handled, u)
    /\ queue' = Tail(queue)
    /\ UNCHANGED <<config, pc, variant, exit, stopAt, app, updater, listener,
                   errlog, ingress, health>>

\* the awaited reply returns, or raises a transport error the application logs
SendComplete(ok) ==
    /\ cur # <<>>
    /\ cur' = <<>>
    /\ errlog' = IF ok THEN errlog ELSE errlog \cup {"No error handlers are registered"}
    /\ UNCHANGED <<config, pc, variant, exit, stopAt, app, updater, listener, platform,
                   ingress, queue, handled, sent, health>>

-----------------------------------------------------------------------------
(* Specifications *)

Next ==
    \/ Main
    \/ Interrupt
    \/ \E ok \in BOOLEAN : WhBuild(ok)
    \/ \E ok \in BOOLEAN : WhInitialize(ok)
    \/ \E ok \in BOOLEAN : WhStart(ok)
    \/ \E ok \in BOOLEAN : WhSetWebhook(ok)
    \/ \E ok \in BOOLEAN : WhWebServer(ok)
    \/ WhStop
    \/ WhShutdown
    \/ WhCleanup
    \/ \E ok \in BOOLEAN : PlBuild(ok)
    \/ \E ok \in BOOLEAN : PlDeleteWebhook(ok)
    \/ \E ok \in BOOLEAN : PlInitialize(ok)
    \/ \E ok \in BOOLEAN : PlStart(ok)
    \/ \E ok \in BOOLEAN : PlStartPolling(ok)
    \/ PlUpdaterStop
    \/ PlStop
    \/ PlShutdown
    \/ \E path \in HealthPaths : HealthGet(path)
    \/ \E json \in {"malformed", "invalid", "update"} : WebhookBegin(json)
    \/ \E h \in handlers : WebhookFinish(h)
    \/ PollFetch
    \/ Dispatch
    \/ \E ok \in BOOLEAN : SendComplete(ok)

\* the whole process, from the start of main
Spec == Init /\ [][Next]_vars

\* the awaits of the finally blocks (lines 152-154, 181-183) return
ShutdownFairness ==
    /\ WF_vars(WhStop) /\ WF_vars(WhShutdown) /\ WF_vars(WhCleanup)
    /\ WF_vars(PlUpdaterStop) /\ WF_vars(PlStop) /\ WF_vars(PlShutdown)

FairSpec == Spec /\ ShutdownFairness

\* the webhook variant serving, one Update of HandlerUpdates on the queue
HandlerInit ==
    /\ token = "set"
    /\ url = Url(TRUE, <<"https://">>, <<"bot.example.com">>, <<"/">>)
    /\ pc = "wh_running"
    /\ variant = "webhook"
    /\ exit = "none"
    /\ stopAt = "none"
    /\ app = "started"
    /\ updater = "idle"
    /\ listener = "open"
    /\ platform = {"get_me", "set_webhook"}
    /\ errlog = {}
    /\ arrived = 1
    /\ handlers = {}
    /\ resp = <<[json |-> "update", status |-> 200]>>
    /\ \E u \in HandlerUpdates : queue = <<u>>
    /\ cur = <<>>
    /\ handled = <<>>
    /\ sent = <<>>
    /\ health = <<>>

HandlerNext ==
    \/ Dispatch
    \/ \E ok \in BOOLEAN : SendComplete(ok)

\* the handlers alone, on every Update of HandlerUpdates
HandlerSpec == HandlerInit /\ [][HandlerNext]_vars

-----------------------------------------------------------------------------
(* Properties of the handlers, checked under HandlerSpec *)

\* the Outbound Messaging calls made for Update u
SendsFor(u) == SelectSeq(sent, LAMBDA m : m.update_id = u.update_id)

\* a step in which the application takes Update u from the queue
Dispatches(u) == queue # <<>> /\ u = Head(queue) /\ handled' = Append(handled, u)

\* C1: every Update with the command start, whatever its chat id and first name,
\* gets exactly one reply; its text holds the chat id in decimal and greets the
\* first name, and it carries one inline button, labelled "Go to UniShark
\* Website", whose url is https://unishark.site.
C1_StartRepliesOnce ==
    \A i \in 1..Len(handled) :
        LET u == handled[i]
            r == SendsFor(u)
        IN  IsStartCommand(u) =>
              /\ Len(r) = 1
              /\ r[1].chat_id = u.chat_id
              /\ Contains(IntToStr(u.chat_id), r[1].text)
              /\ Contains(<<WelcomeHead, u.first_name, WelcomeTail>>, r[1].text)
              /\ Len(r[1].reply_markup) = 1
              /\ r[1].reply_markup[1] =
                    <<[text |-> "Go to UniShark Website", url |-> "https://unishark.site"]>>

\* a start command of a group chat (negative chat id, sender id differing) was answered
C1_Witness ==
    /\ Len(handled) = 1
    /\ IsStartCommand(handled[1])
    /\ handled[1].chat_id < 0
    /\ handled[1].user_id # handled[1].chat_id
    /\ Len(sent) = 1
    /\ cur = <<>>

\* C2: a plain-text Update whose text equals the first trigger phrase gets the
\* first canned phrase, and that is the only send made for it.
C2_ExactTriggerReply ==
    \A i \in 1..Len(handled) :
        LET u == handled[i]
        IN  (IsPlainText(u) /\ u.text = Trigger1) =>
              SendsFor(u) = <<Send(u, "reply_text", Reply1, NoKeyboard)>>

\* the first trigger phrase was handled and its handler has returned
C2_Witness ==
    /\ Len(handled) = 1
    /\ handled[1].kind = "text"
    /\ handled[1].text = Trigger1
    /\ Len(sent) = 1
    /\ cur = <<>>

\* C3: a plain-text Update whose text contains the second trigger phrase, at
\* any position, is answered with the second canned phrase.
C3_SubstringTriggerReply ==
    \A i \in 1..Len(handled) :
        LET u == handled[i]
        IN  (IsPlainText(u) /\ Contains(Trigger2, u.text)) =>
              SendsFor(u) = <<Send(u, "reply_text", Reply2, NoKeyboard)>>

\* the second trigger phrase was handled with text before it and after it
C3_Witness ==
    /\ Len(handled) = 1
    /\ handled[1].kind = "text"
    /\ Len(handled[1].text) = Len(Trigger2) + 2
    /\ Slice(handled[1].text, 2, Len(Trigger2)) = Trigger2
    /\ Len(sent) = 1
    /\ sent[1].text = Reply2

\* the text of plain-text Update u matches neither trigger
MatchesNeither(u) ==
    IsPlainText(u) /\ u.text # Trigger1 /\ ~Contains(Trigger2, u.text)

\* C4: when a plain-text Update matching neither trigger is dispatched, no
\* send is made and nothing but the queue (and the record of what was taken
\* from it) changes.
C4_NoMatchNoEffect ==
    [][\A u \in HandlerUpdates :
          (Dispatches(u) /\ MatchesNeither(u)) =>
              UNCHANGED <<config, pc, variant, exit, stopAt, app, updater, listener,
                          platform, errlog, ingress, cur, sent, health>>]_vars

\* a text holding the first trigger phrase inside a longer text was handled in silence
C4_Witness ==
    /\ Len(handled) = 1
    /\ MatchesNeither(handled[1])
    /\ Contains(Trigger1, handled[1].text)
    /\ sent = <<>>
    /\ cur = <<>>
    /\ queue = <<>>

-----------------------------------------------------------------------------
(* Properties of the whole process, checked under Spec *)

\* the Updates put on the queue so far, in the order they were put
Enqueued == handled \o queue

\* a step in which handler h of telegram_webhook answers its request
Answers(h) == h \in handlers /\ resp'[h.req].status # 0

\* C5: a POST whose body is malformed JSON is answered 500 and leaves the
\* queue unchanged; a POST with a valid serialized Update is answered 200 and
\* its Update is put on the queue, whatever requests came before; answering a
\* request leaves the listener open and the process where it is; no status
\* other than 200 or 500 is ever answered.
C5_WebhookStatus ==
    /\ [](\A r \in 1..Len(resp) :
             /\ resp[r].status \in {0, 200, 500}
             /\ resp[r].status = 200 => resp[r].json = "update"
             /\ resp[r].status = 500 => resp[r].json # "update")
    /\ [][\A h \in handlers :
             Answers(h) =>
                /\ IF h.body.json = "update"
                   THEN resp'[h.req].status = 200 /\ queue' = queue \o h.body.update
                   ELSE resp'[h.req].status = 500 /\ queue' = queue
                /\ listener' = "open"
                /\ pc' = pc /\ exit' = exit]_vars

\* a malformed body was answered 500, and a request that arrived after it was
\* answered 200 and its Update put on the queue
C5_Witness ==
    /\ Len(resp) = 2
    /\ resp[1] = [json |-> "malformed", status |-> 500]
    /\ resp[2] = [json |-> "update", status |-> 200]
    /\ \E i \in 1..Len(Enqueued) : Enqueued[i].update_id = 2
    /\ listener = "open"

\* C6 as amended: every answer health_check gives to GET / or GET /health is
\* 200 with body OK and a newline, whatever the state of the application, of
\* the queue and of the requests and sends before it.  The routes are served
\* only while the listener of the webhook variant is open.
C6_HealthAnswersOK ==
    \A i \in 1..Len(health) :
        /\ health[i].status = 200
        /\ health[i].body = "OK\n"
        /\ health[i].path \in HealthPaths

\* health was answered after application.stop(), with an error logged before
C6_Witness ==
    /\ health # <<>>
    /\ app \in {"stopped", "shutdown"}
    /\ listener = "open"
    /\ errlog # {}

\* C6 as stated: in every state in which the bot is running, in either
\* variant, GET / and GET /health are answered (the listener is open).
C6_AlwaysServed ==
    pc \in Running => listener = "open"

\* C7: with the token absent main logs an error and returns; no application
\* is built, no listener is opened, no platform call is made, no variant is
\* entered.
C7_NoTokenNoStart ==
    token \in {"unset", "empty"} =>
        /\ pc \in {"main", "exited"}
        /\ variant = "none"
        /\ app = "none"
        /\ updater = "idle"
        /\ listener = "closed"
        /\ platform = {}
        /\ pc = "exited" =>
              /\ exit = "returned"
              /\ errlog = {"TELEGRAM_BOT_TOKEN is not set. The bot cannot start."}

\* main has returned on an empty token
C7_Witness ==
    /\ token = "empty"
    /\ pc = "exited"

\* the URL names a loopback host
PointsAtLoopback(u) ==
    u.set /\ u.host \in {<<"localhost">>, <<"127.0.0.1">>, <<"[::1]">>}

\* C8: with a token present, the polling variant is entered exactly when the
\* callback URL is absent or points at a loopback address, the webhook variant
\* otherwise; and a run never does both the webhook variant's work (register
\* the webhook, open the listener) and the polling variant's (clear the
\* webhook, poll).
C8_VariantByUrl ==
    /\ variant # "none" =>
          (variant = "polling" <=> (UrlMissing(url) \/ PointsAtLoopback(url)))
    /\ ~(({"set_webhook"} \cap platform # {} \/ listener # "closed")
           /\ ({"delete_webhook", "get_updates"} \cap platform # {} \/ updater # "idle"))

\* the part of C8 the code keeps: one variant is entered, as is_local tells,
\* and the work of the two variants never mixes.
C8_VariantsExclusive ==
    /\ variant # "none" => (variant = "polling" <=> is_local(url))
    /\ variant = "polling" =>
          {"set_webhook"} \cap platform = {} /\ listener = "closed"
    /\ variant = "webhook" =>
          {"delete_webhook", "get_updates"} \cap platform = {} /\ updater = "idle"
    /\ variant = "none" => platform = {} /\ listener = "closed" /\ updater = "idle"

\* C9: Updates are enqueued and dispatched in the order in which they arrived
\* at the ingress (update ids count arrivals, webhook POSTs and poll results
\* alike), and at most one handler is in flight.
C9_ArrivalOrder ==
    /\ \A i, j \in 1..Len(Enqueued) :
          i < j => Enqueued[i].update_id < Enqueued[j].update_id
    /\ Len(cur) <= 1

\* the part of C9 the code keeps: an Update is taken from the queue only when
\* the handler of the one before has returned, and it is the head of the queue.
C9_OneAtATime ==
    [][handled' # handled =>
          /\ cur = <<>>
          /\ queue # <<>>
          /\ handled' = Append(handled, Head(queue))
          /\ queue' = Tail(queue)]_vars

-----------------------------------------------------------------------------
(* Shutdown, checked under FairSpec *)

\* the interrupt was received while the process waited at line 150 or 179
StoppedWhileRunning == stopAt \in Running

=============================================================================
